---------------------------- MODULE Spec2Model ----------------------------
(***************************************************************************)
(* A model of js/search-optimizer.js (class SearchOptimizer).              *)
(*                                                                         *)
(* Texts are sequences of characters; a character is a one-token string.   *)
(* The characters outside ASCII that the source's regular expressions and  *)
(* stop-word list name are written as tokens: "DI" is U+7B2C, "JI" is      *)
(* U+5B63, "BU" is U+90E8, "EP" is U+96C6, "FL" and "FR" are the full      *)
(* width parentheses, "YI" "GE" is the stop word U+4E00 U+4E2A.            *)
(*                                                                         *)
(* A JavaScript object is a function from the names of its own properties  *)
(* to their values, so an absent property is a name outside DOMAIN.        *)
(* Numbers are integers or exact fractions <<n, d>>; NaN is the sentinel   *)
(* NaN below, which every comparison treats as JavaScript treats NaN.      *)
(***************************************************************************)
EXTENDS Integers, Sequences, FiniteSets, TLC

(***************************************************************************)
(* Characters and String.prototype helpers                                 *)
(***************************************************************************)
UpperCase == {"A", "B"}

toLowerChar(c) == IF c = "A" THEN "a" ELSE IF c = "B" THEN "b" ELSE c

toLowerCase(s) == [i \in 1..Len(s) |-> toLowerChar(s[i])]

\* /[\s\-_\.]/ : white space, hyphen, underscore, period
Separators == {" ", "-", "_", "."}

\* /[（）()\[\]【】]/
Brackets == {"(", ")", "[", "]", "FL", "FR"}

Digits == {"0", "1", "2", "3", "4", "5", "6", "7", "8", "9"}

RECURSIVE RemoveChars(_, _)
RemoveChars(s, cs) ==
    IF s = <<>> THEN <<>>
    ELSE IF Head(s) \in cs THEN RemoveChars(Tail(s), cs)
    ELSE <<Head(s)>> \o RemoveChars(Tail(s), cs)

\* the least j >= i with s[j] = c, or 0 when there is none
IndexFrom(s, c, i) ==
    LET js == {j \in i..Len(s) : s[j] = c}
    IN  IF js = {} THEN 0 ELSE CHOOSE j \in js : \A k \in js : j <= k

startsWith(text, q) ==
    Len(q) <= Len(text) /\ SubSeq(text, 1, Len(q)) = q

includes(text, q) ==
    \E i \in 0..(Len(text) - Len(q)) : SubSeq(text, i + 1, i + Len(q)) = q

\* a JavaScript value used as a condition: absent, null and '' are falsy
Absent == <<"undefined">>
Null == <<"null">>
Falsy(v) == v = Absent \/ v = Null \/ v = <<>>

\* item.f : the property, or undefined
Prop(item, f) == IF f \in DOMAIN item THEN item[f] ELSE Absent

\* item.f || ''
PropOrEmpty(item, f) == IF Falsy(Prop(item, f)) THEN <<>> ELSE item[f]

(***************************************************************************)
(* normalizeText, lines 150-157                                            *)
(***************************************************************************)
\* .replace(/第.*?季|第.*?部|第.*?集/g, ''): at each "DI" the alternatives are
\* tried in order, each lazily up to the first occurrence of its terminator
MarkerEnd(s, i) ==
    IF IndexFrom(s, "JI", i + 1) # 0 THEN IndexFrom(s, "JI", i + 1)
    ELSE IF IndexFrom(s, "BU", i + 1) # 0 THEN IndexFrom(s, "BU", i + 1)
    ELSE IndexFrom(s, "EP", i + 1)

RECURSIVE StripMarkersFrom(_, _)
StripMarkersFrom(s, i) ==
    IF i > Len(s) THEN <<>>
    ELSE IF s[i] = "DI" /\ MarkerEnd(s, i) # 0
         THEN StripMarkersFrom(s, MarkerEnd(s, i) + 1)
    ELSE <<s[i]>> \o StripMarkersFrom(s, i + 1)

StripMarkers(s) == StripMarkersFrom(s, 1)

\* the marker pattern without its g flag: the first match alone is removed
StripFirstMarker(s) ==
    LET starts == {i \in 1..Len(s) : s[i] = "DI" /\ MarkerEnd(s, i) # 0}
    IN  IF starts = {} THEN s
        ELSE LET i == CHOOSE k \in starts : \A m \in starts : k <= m
             IN  SubSeq(s, 1, i - 1) \o SubSeq(s, MarkerEnd(s, i) + 1, Len(s))

normalizeTextFirstMarkerOnly(text) ==
    IF Falsy(text) THEN <<>>
    ELSE StripFirstMarker(RemoveChars(RemoveChars(toLowerCase(text),
                                                  Separators), Brackets))

\* a normalizeText without its guard, the argument coerced to a string:
\* undefined becomes the text "undefined"
normalizeTextCoerced(text) ==
    StripMarkers(RemoveChars(RemoveChars(toLowerCase(text), Separators),
                             Brackets))

\* a normalizeText whose first replace is left out: separators stay
normalizeTextKeepSeparators(text) ==
    IF Falsy(text) THEN <<>>
    ELSE StripMarkers(RemoveChars(toLowerCase(text), Brackets))

normalizeText(text) ==
    IF Falsy(text) THEN <<>>
    ELSE StripMarkers(RemoveChars(RemoveChars(toLowerCase(text), Separators),
                                  Brackets))

(***************************************************************************)
(* extractKeywords and isStopWord, lines 162-179                           *)
(***************************************************************************)
\* the entries of stopWords of length >= 2 (shorter ones never pass the
\* length filter that runs first)
StopWords == {<<"YI", "GE">>, <<"MEI", "YOU">>, <<"ZI", "JI3">>}

isStopWord(word) == word \in StopWords

\* text.split(/[\s\-_\.]+/)
RECURSIVE SplitFrom(_, _, _)
SplitFrom(s, i, cur) ==
    IF i > Len(s) THEN <<cur>>
    ELSE IF s[i] \in Separators
         THEN IF i > 1 /\ s[i - 1] \in Separators
              THEN SplitFrom(s, i + 1, cur)
              ELSE <<cur>> \o SplitFrom(s, i + 1, <<>>)
    ELSE SplitFrom(s, i + 1, Append(cur, s[i]))

\* an extractKeywords without the guard and the length filter: ''.split
\* gives the one word ''
extractKeywordsUnfiltered(text) ==
    LET words == SplitFrom(text, 1, <<>>)
    IN  {words[i] : i \in {k \in 1..Len(words) : ~isStopWord(words[k])}}

\* the set of kept words; the code returns them as an array without
\* duplicates, and every use of it is insensitive to order
extractKeywords(text) ==
    IF Falsy(text) THEN {}
    ELSE LET words == SplitFrom(text, 1, <<>>)
         IN  {words[i] : i \in {k \in 1..Len(words) :
                  Len(words[k]) >= 2 /\ ~isStopWord(words[k])}}

(***************************************************************************)
(* levenshteinDistance and calculateSimilarity, lines 184-225              *)
(***************************************************************************)
Min2(a, b) == IF a <= b THEN a ELSE b

\* a row built without the substitution case matrix[i - 1][j - 1] + 1
RECURSIVE LevRowNoSubstitution(_, _, _, _, _)
LevRowNoSubstitution(prev, str1, ch, j, acc) ==
    IF j > Len(str1) THEN acc
    ELSE LET cell == IF ch = str1[j] THEN prev[j]
                     ELSE Min2(acc[j] + 1, prev[j + 1] + 1)
         IN  LevRowNoSubstitution(prev, str1, ch, j + 1, Append(acc, cell))

\* row i of matrix, built left to right from row i - 1 (prev); acc holds
\* matrix[i][0..j-1]
RECURSIVE LevRow(_, _, _, _, _)
LevRow(prev, str1, ch, j, acc) ==
    IF j > Len(str1) THEN acc
    ELSE LET cell == IF ch = str1[j] THEN prev[j]
                     ELSE Min2(prev[j] + 1,
                               Min2(acc[j] + 1, prev[j + 1] + 1))
         IN  LevRow(prev, str1, ch, j + 1, Append(acc, cell))

RECURSIVE LevRows(_, _, _, _)
LevRows(prev, str1, str2, i) ==
    IF i > Len(str2) THEN prev
    ELSE LevRows(LevRow(prev, str1, str2[i], 1, <<i>>), str1, str2, i + 1)

levenshteinDistance(str1, str2) ==
    LevRows([j \in 1..(Len(str1) + 1) |-> j - 1], str1, str2, 1)[Len(str1) + 1]

\* a fraction <<n, d>>, d > 0
calculateSimilarity(str1, str2) ==
    IF Falsy(str1) \/ Falsy(str2) THEN <<0, 1>>
    ELSE LET longer  == IF Len(str1) > Len(str2) THEN str1 ELSE str2
             shorter == IF Len(str1) > Len(str2) THEN str2 ELSE str1
         IN  IF Len(longer) = 0 THEN <<1, 1>>
             ELSE <<Len(longer) - levenshteinDistance(longer, shorter),
                    Len(longer)>>

(***************************************************************************)
(* Numbers: exact fractions <<n, d>> with d > 0, kept in lowest terms      *)
(***************************************************************************)
RECURSIVE GCD(_, _)
GCD(a, b) == IF b = 0 THEN a ELSE GCD(b, a % b)

\* n / 0 is Infinity, <<1, 0>>, and 0 / 0 is NaN, <<0, 0>>: the sums and
\* products below carry both as JavaScript does
Reduce(f) ==
    LET g == GCD(f[1], f[2])
    IN  IF g = 0 THEN <<0, 0>> ELSE <<f[1] \div g, f[2] \div g>>

FAdd(f, g) == Reduce(<<f[1] * g[2] + g[1] * f[2], f[2] * g[2]>>)

FMul(f, g) == Reduce(<<f[1] * g[1], f[2] * g[2]>>)

FGreater(f, g) == f[1] * g[2] > g[1] * f[2]

FInt(n) == <<n, 1>>

\* Math.round of a non-negative fraction: the nearest integer, halves up.
\* The fractions are exact where the code computes in binary floating point;
\* the two agree unless the exact sum lies within rounding error of a half.
MathRound(f) == (2 * f[1] + f[2]) \div (2 * f[2])

\* the result of Math.round on a value that is not a number
NaN == -999

(***************************************************************************)
(* this.config, constructor, lines 5-26                                    *)
(***************************************************************************)
DefaultWeights ==
    [exactMatch |-> 100, startsWith |-> 80, contains |-> 60, fuzzyMatch |-> 40,
     yearMatch |-> 20, typeMatch |-> 15, actorMatch |-> 10, directorMatch |-> 10]

DefaultFilters == [minScore |-> 10, maxResults |-> 500]

DefaultConfig == [weights |-> DefaultWeights, filters |-> DefaultFilters]

(***************************************************************************)
(* calculateTextScore, lines 113-145                                       *)
(***************************************************************************)
\* a chain that tests includes before startsWith: a text that starts with the
\* query gets the contains weight
MatchTierContainsFirst(w, text, query) ==
    IF text = query THEN w.exactMatch
    ELSE IF includes(text, query) THEN w.contains
    ELSE IF startsWith(text, query) THEN w.startsWith
    ELSE 0

\* the branch of the if / else if chain of lines 119-129
MatchTier(w, text, query) ==
    IF text = query THEN w.exactMatch
    ELSE IF startsWith(text, query) THEN w.startsWith
    ELSE IF includes(text, query) THEN w.contains
    ELSE 0

\* queryTerms.forEach, lines 132-136; a term exists only for a query of
\* length >= 2, so query.length is not 0 where this is summed
RECURSIVE TermCredit(_, _, _, _)
TermCredit(w, text, query, terms) ==
    IF terms = {} THEN <<0, 1>>
    ELSE LET term == CHOOSE t \in terms : TRUE
             rest == TermCredit(w, text, query, terms \ {term})
         IN  IF includes(text, term)
             THEN FAdd(rest, Reduce(<<w.fuzzyMatch * Len(term), Len(query)>>))
             ELSE rest

\* lines 139-142: similarity > 0.6
SimilarityCredit(w, text, query) ==
    LET similarity == calculateSimilarity(text, query)
    IN  IF FGreater(similarity, <<6, 10>>)
        THEN FMul(FInt(w.fuzzyMatch), similarity)
        ELSE <<0, 1>>

calculateTextScore(cfg, text, query, queryTerms, multiplier) ==
    IF Falsy(text) THEN <<0, 1>>
    ELSE FMul(FAdd(FAdd(FInt(MatchTier(cfg.weights, text, query)),
                        TermCredit(cfg.weights, text, query, queryTerms)),
                   SimilarityCredit(cfg.weights, text, query)),
              multiplier)

(***************************************************************************)
(* getSourceQualityBonus, lines 230-239                                    *)
(***************************************************************************)
\* names every object literal inherits from Object.prototype: qualityMap[name]
\* is then a function or an object, which is truthy and not a number
InheritedNames == {"constructor", "toString", "valueOf", "hasOwnProperty",
                   "__proto__"}

NotANumber == [kind |-> "object"]

Num(n) == [kind |-> "number", v |-> n]

qualityMap ==
    [tyyszy |-> 15, dyttzy |-> 12, bfzy |-> 10, ruyi |-> 8, custom |-> 5]

getSourceQualityBonus(item) ==
    IF "source_code" \notin DOMAIN item THEN Num(0)
    ELSE IF item.source_code \in DOMAIN qualityMap
         THEN Num(qualityMap[item.source_code])
    ELSE IF item.source_code \in InheritedNames THEN NotANumber
    ELSE Num(0)

(***************************************************************************)
(* calculateItemScore, lines 75-108                                        *)
(***************************************************************************)
YearMatches(item, query) ==
    ~Falsy(PropOrEmpty(item, "vod_year"))
        /\ includes(query, PropOrEmpty(item, "vod_year"))

FieldScore(cfg, item, f, query, queryTerms, multiplier) ==
    calculateTextScore(cfg, normalizeText(PropOrEmpty(item, f)), query,
                       queryTerms, multiplier)

calculateItemScore(cfg, item, query, queryTerms) ==
    LET fields ==
            FAdd(FieldScore(cfg, item, "vod_name", query, queryTerms, <<30, 10>>),
            FAdd(FieldScore(cfg, item, "vod_actor", query, queryTerms, <<15, 10>>),
            FAdd(FieldScore(cfg, item, "vod_director", query, queryTerms, <<12, 10>>),
            FAdd(FieldScore(cfg, item, "type_name", query, queryTerms, <<10, 10>>),
                 FieldScore(cfg, item, "vod_content", query, queryTerms, <<5, 10>>)))))
        yearBonus == IF YearMatches(item, query)
                     THEN cfg.weights.yearMatch ELSE 0
        bonus == getSourceQualityBonus(item)
    IN  IF bonus.kind = "number"
        THEN MathRound(FAdd(fields, FInt(yearBonus + bonus.v)))
        ELSE NaN

(***************************************************************************)
(* getMatchDetails, lines 305-327                                          *)
(***************************************************************************)
FieldMatches(item, f, query, queryTerms) ==
    LET text == normalizeText(PropOrEmpty(item, f))
    IN  includes(text, query) \/ \E term \in queryTerms : includes(text, term)

\* year && query.includes(year), with year = item.vod_year || '': the value
\* of the && expression is the year itself, '', when the year is falsy, and
\* the boolean otherwise.  The three values are written "''", "true", "false".
YearMatchValue(item, query) ==
    IF Falsy(PropOrEmpty(item, "vod_year")) THEN "''"
    ELSE IF includes(query, item.vod_year) THEN "true" ELSE "false"

getMatchDetails(item, query, queryTerms) ==
    [titleMatch    |-> FieldMatches(item, "vod_name", query, queryTerms),
     actorMatch    |-> FieldMatches(item, "vod_actor", query, queryTerms),
     directorMatch |-> FieldMatches(item, "vod_director", query, queryTerms),
     yearMatch     |-> YearMatchValue(item, query),
     typeMatch     |-> FieldMatches(item, "type_name", query, queryTerms)]

(***************************************************************************)
(* The heap.  An object reference is <<owner, i>> and an array reference   *)
(* <<owner, name>>: owner 0 is the caller, owner c > 0 is the call c of    *)
(* optimizeResults that allocated it.  h maps object references to objects.*)
(***************************************************************************)
\* a >= b and a > b on numbers: false when either side is NaN
NumGeq(a, b) == a # NaN /\ b # NaN /\ a >= b

NumGreater(a, b) == a # NaN /\ b # NaN /\ a > b

\* { ...item, relevanceScore: score, matchDetails: ... }, lines 64-68
Spread(item, score, details) ==
    [k \in DOMAIN item \cup {"relevanceScore", "matchDetails"} |->
        IF k = "relevanceScore" THEN score
        ELSE IF k = "matchDetails" THEN details
        ELSE item[k]]

\* the callback of results.map, lines 62-69
ScoredItem(cfg, item, normalizedQuery, queryTerms) ==
    Spread(item,
           calculateItemScore(cfg, item, normalizedQuery, queryTerms),
           getMatchDetails(item, normalizedQuery, queryTerms))

\* a calculateRelevanceScores that hands the query as given, not normalized,
\* to calculateItemScore
calculateRelevanceScoresRawQuery(cfg, results, query) ==
    LET raw == IF Falsy(query) THEN <<>> ELSE query
        queryTerms == extractKeywords(normalizeText(query))
    IN  [i \in 1..Len(results) |->
            Spread(results[i],
                   calculateItemScore(cfg, results[i], raw, queryTerms),
                   getMatchDetails(results[i], normalizeText(query),
                                   queryTerms))]

\* calculateRelevanceScores, lines 58-70, as a function of the items: the
\* array results.map returns
calculateRelevanceScores(cfg, results, query) ==
    LET normalizedQuery == normalizeText(query)
        queryTerms == extractKeywords(normalizedQuery)
    IN  [i \in 1..Len(results) |->
            ScoredItem(cfg, results[i], normalizedQuery, queryTerms)]

(***************************************************************************)
(* filterLowScoreResults, lines 244-248                                    *)
(***************************************************************************)
\* a filter written !(score < minScore): a NaN score is kept
KeepsScoreNotBelow(cfg, item) ==
    item.relevanceScore = NaN \/ item.relevanceScore >= cfg.filters.minScore

\* this.config.filters.minScore as the comparison of line 246 reads it: a
\* missing key is undefined, which >= converts to NaN
MinScore(cfg) ==
    IF "minScore" \in DOMAIN cfg.filters THEN cfg.filters.minScore ELSE NaN

KeepsScore(cfg, item) == NumGeq(item.relevanceScore, MinScore(cfg))

filterLowScoreResults(cfg, h, arr) ==
    SelectSeq(arr, LAMBDA r : KeepsScore(cfg, h[r]))

(***************************************************************************)
(* removeDuplicates, lines 253-278                                         *)
(***************************************************************************)
\* a key built from the raw title
DedupKeyRawTitle(item) ==
    PropOrEmpty(item, "vod_name") \o <<"_">> \o PropOrEmpty(item, "vod_year")

\* `${normalizedTitle}_${item.vod_year || ''}`
DedupKey(item) ==
    normalizeText(PropOrEmpty(item, "vod_name")) \o <<"_">>
        \o PropOrEmpty(item, "vod_year")

\* filtered.indexOf(existing): the first position holding that reference, 0
\* for none (positions count from 1 here)
indexOf(arr, r) ==
    LET is == {i \in 1..Len(arr) : arr[i] = r}
    IN  IF is = {} THEN 0 ELSE CHOOSE i \in is : \A k \in is : i <= k

\* a comparison written the wrong way round: the lower score replaces
ReplacesLower(item, existing) ==
    NumGreater(existing.relevanceScore, item.relevanceScore)

\* a comparison written >=: a later item of equal score replaces
ReplacesNotLower(item, existing) ==
    NumGeq(item.relevanceScore, existing.relevanceScore)

\* line 267
Replaces(item, existing) ==
    NumGreater(item.relevanceScore, existing.relevanceScore)

\* the loop of lines 257-275 from position i on, with the Map seen (a
\* function from keys to references) and the array filtered
RECURSIVE DedupLoop(_, _, _, _, _)
DedupLoop(h, arr, i, seen, filtered) ==
    IF i > Len(arr) THEN filtered
    ELSE LET r == arr[i]
             key == DedupKey(h[r])
         IN  IF key \notin DOMAIN seen
             THEN DedupLoop(h, arr, i + 1, (key :> r) @@ seen,
                            Append(filtered, r))
             ELSE IF Replaces(h[r], h[seen[key]])
                     /\ indexOf(filtered, seen[key]) > 0
             THEN DedupLoop(h, arr, i + 1, (key :> r) @@ seen,
                            [filtered EXCEPT ![indexOf(filtered, seen[key])] = r])
             ELSE DedupLoop(h, arr, i + 1, seen, filtered)

\* a Map kept on the instance and never cleared: it still holds the scored
\* items of the other calls
SeenAtEntryStale(h, arr) ==
    LET own == {0} \cup {arr[i][1] : i \in 1..Len(arr)}
        stale == {r \in DOMAIN h : r[1] \notin own}
    IN  [k \in {DedupKey(h[r]) : r \in stale} |->
            CHOOSE r \in stale : DedupKey(h[r]) = k]

\* line 254: const seen = new Map(), empty at every call
SeenAtEntry(h, arr) == << >>

removeDuplicates(h, arr) == DedupLoop(h, arr, 1, SeenAtEntry(h, arr), << >>)

(***************************************************************************)
(* sortByRelevance, lines 283-300                                          *)
(***************************************************************************)
DigitValue(c) ==
    CASE c = "0" -> 0 [] c = "1" -> 1 [] c = "2" -> 2 [] c = "3" -> 3
      [] c = "4" -> 4 [] c = "5" -> 5 [] c = "6" -> 6 [] c = "7" -> 7
      [] c = "8" -> 8 [] c = "9" -> 9

\* the value of the longest prefix of digits of s from position i, acc so far
RECURSIVE DigitsValue(_, _, _)
DigitsValue(s, i, acc) ==
    IF i > Len(s) \/ s[i] \notin Digits THEN acc
    ELSE DigitsValue(s, i + 1, 10 * acc + DigitValue(s[i]))

\* parseInt(v) || 0: leading white space skipped, an optional sign, then the
\* digits; NaN (no digit, or v undefined) and 0 both give 0
RECURSIVE ParseIntOrZero(_)
ParseIntOrZero(v) ==
    IF Falsy(v) THEN 0
    ELSE IF Head(v) = " " THEN ParseIntOrZero(Tail(v))
    ELSE IF Head(v) = "-" THEN 0 - DigitsValue(v, 2, 0)
    ELSE DigitsValue(v, 1, 0)

\* String.prototype.localeCompare is the host's collation.  Modelled as the
\* usual multi-level one for the characters used here: first the texts are
\* compared without regard to case, character by character in CollationOrder;
\* texts equal up to case are then ordered lower case first.
CollationOrder ==
    <<" ", "_", "-", ".", "(", ")", "[", "]", "FL", "FR",
      "0", "1", "2", "3", "4", "5", "6", "7", "8", "9",
      "a", "b", "YI", "GE", "JI", "DI", "BU", "EP">>

CollationRank(c) ==
    CHOOSE i \in 1..Len(CollationOrder) : CollationOrder[i] = toLowerChar(c)

\* -1, 0, 1 by the first position where the ranks differ, a proper prefix first
RECURSIVE LexCompare(_, _)
LexCompare(a, b) ==
    IF a = <<>> /\ b = <<>> THEN 0
    ELSE IF a = <<>> THEN -1
    ELSE IF b = <<>> THEN 1
    ELSE IF Head(a) < Head(b) THEN -1
    ELSE IF Head(a) > Head(b) THEN 1
    ELSE LexCompare(Tail(a), Tail(b))

CaseRank(c) == IF c \in UpperCase THEN 1 ELSE 0

localeCompare(a, b) ==
    LET primary == LexCompare([i \in 1..Len(a) |-> CollationRank(a[i])],
                              [i \in 1..Len(b) |-> CollationRank(b[i])])
    IN  IF primary # 0 THEN primary
        ELSE LexCompare([i \in 1..Len(a) |-> CaseRank(a[i])],
                        [i \in 1..Len(b) |-> CaseRank(b[i])])

Sign(n) == IF n < 0 THEN -1 ELSE IF n > 0 THEN 1 ELSE 0

\* a comparator that stops after the scores
ComparatorScoreOnly(a, b) ==
    IF a.relevanceScore = NaN \/ b.relevanceScore = NaN THEN 0
    ELSE Sign(b.relevanceScore - a.relevanceScore)

\* the comparator of lines 284-299: negative when a sorts before b.  A NaN
\* score makes the first return NaN, which sort treats as 0.
Comparator(a, b) ==
    IF b.relevanceScore # a.relevanceScore
          \/ a.relevanceScore = NaN
    THEN IF a.relevanceScore = NaN \/ b.relevanceScore = NaN THEN 0
         ELSE Sign(b.relevanceScore - a.relevanceScore)
    ELSE LET yearA == ParseIntOrZero(Prop(a, "vod_year"))
             yearB == ParseIntOrZero(Prop(b, "vod_year"))
         IN  IF yearB # yearA THEN Sign(yearB - yearA)
             ELSE localeCompare(PropOrEmpty(a, "vod_name"),
                                PropOrEmpty(b, "vod_name"))

\* Array.prototype.sort is stable: an element goes before the first element
\* of the sorted part that the comparator puts after it
RECURSIVE InsertSorted(_, _, _)
InsertSorted(h, sorted, r) ==
    IF sorted = <<>> THEN <<r>>
    ELSE IF Comparator(h[Head(sorted)], h[r]) > 0 THEN <<r>> \o sorted
    ELSE <<Head(sorted)>> \o InsertSorted(h, Tail(sorted), r)

RECURSIVE SortFrom(_, _, _, _)
SortFrom(h, arr, i, sorted) ==
    IF i > Len(arr) THEN sorted
    ELSE SortFrom(h, arr, i + 1, InsertSorted(h, sorted, arr[i]))

\* the order sort leaves in the array it is given
sortByRelevance(h, arr) == SortFrom(h, arr, 1, <<>>)

\* a slice that keeps one item too many
sliceOneMore(arr, n) == SubSeq(arr, 1, Min2(Len(arr), n + 1))

\* .slice(0, maxResults), line 52
slice(arr, n) == SubSeq(arr, 1, Min2(Len(arr), n))

\* the end slice is given: with the key maxResults missing it is undefined,
\* and slice then runs to the end of the array
SliceEnd(cfg, arr) ==
    IF "maxResults" \in DOMAIN cfg.filters THEN cfg.filters.maxResults
    ELSE Len(arr)

(***************************************************************************)
(* getSearchSuggestions, lines 332-345: the number of hints pushed         *)
(***************************************************************************)
getSearchSuggestions(length) ==
    IF length = 0 THEN 3 ELSE IF length > 100 THEN 2 ELSE 0

(***************************************************************************)
(* Inputs                                                                  *)
(***************************************************************************)
\* the longest candidate list
MaxItems == 3

\* the longest candidate list where two frames are kept
MaxPairItems == 2

\* media items as the catalogue sources deliver them: "ab" stands for a title,
\* "10" and "9" for years, source_code for the site the item came from
PairCatalog ==
    { [vod_name |-> <<"a", "b">>, vod_year |-> <<"1", "0">>,
       source_code |-> "tyyszy"],
      [vod_name |-> <<"A", " ", "b">>, vod_year |-> <<"1", "0">>,
       source_code |-> "custom"],
      [vod_name |-> <<"b", "a">>, vod_year |-> <<"9">>,
       source_code |-> "custom"],
      [vod_name |-> <<"b">>, source_code |-> "constructor"] }

Catalog ==
    PairCatalog \cup
    { [vod_name |-> <<"a", "-", "b">>, vod_year |-> <<"1", "0">>,
       source_code |-> "tyyszy", vod_actor |-> <<"b">>],
      [vod_name |-> <<"b", "b">>, vod_year |-> <<"9">>,
       source_code |-> "custom", relevanceScore |-> 999] }

RECURSIVE ListsUpTo(_, _)
ListsUpTo(items, n) ==
    IF n = 0 THEN {<<>>}
    ELSE LET shorter == ListsUpTo(items, n - 1)
         IN  shorter \cup {Append(l, x) : l \in shorter, x \in items}

\* the query argument: a string, undefined or null
Queries == {<<"a", "b">>, <<>>, <<"b", " ", "1", "0">>, Absent, Null}

\* this.config.filters.maxResults as the page may have set it before a search
MaxResultsValues == {DefaultFilters.maxResults, 2}

\* the results argument: the caller's array, or a value that is no array
CallerArray == <<0, "candidates">>

ResultsValues ==
    {[kind |-> "array", ref |-> CallerArray], [kind |-> "undefined"],
     [kind |-> "null"], [kind |-> "object"]}

Calls == {1, 2}

(***************************************************************************)
(* State                                                                   *)
(***************************************************************************)
VARIABLES
    config,        \* this.config of the one SearchOptimizer
    objs,          \* the heap's objects, by reference
    arrs,          \* the heap's arrays, by reference: sequences of references
    frames,        \* per call of optimizeResults: its arguments, position,
                   \* local constants and returned value
    suggestions,   \* what the last getSearchSuggestions returned
    direct,        \* a method of the engine called directly: its name and
                   \* its arguments
    result,        \* the values that method has returned, in order
    apiManager,    \* window.apiManager: its lastUpdateTime, the position of
                   \* its init and the calls of updateAPISources under way
    browser        \* Date.now(), localStorage's apiLastUpdate and the
                   \* deadlines of the pending setTimeout callbacks

vars == <<config, objs, arrs, frames, suggestions, direct, result, apiManager,
          browser>>

NoRef == <<0, "none">>

IdleFrame ==
    [pc |-> "idle", results |-> [kind |-> "undefined"], query |-> Absent,
     scoredResults |-> NoRef, filteredResults |-> NoRef,
     deduplicatedResults |-> NoRef, sortedResults |-> NoRef, ret |-> NoRef]

\* no method other than optimizeResults and getSearchSuggestions is called
NoDirect == [method |-> "none"]

\* the caller's candidate list on the heap, and no call made yet
InitCandidates(lists) ==
    /\ \E list \in lists :
          /\ objs = [r \in {<<0, i>> : i \in 1..Len(list)} |-> list[r[2]]]
          /\ arrs = (CallerArray :> [i \in 1..Len(list) |-> <<0, i>>])
    /\ frames = [c \in Calls |-> IdleFrame]
    /\ suggestions = 0
    /\ direct = NoDirect
    /\ result = <<>>
    /\ apiManager = Null
    /\ browser = Null

\* the engine as constructed, maxResults as the page left it
InitWith(lists) ==
    /\ \E maxResults \in MaxResultsValues :
          config = [DefaultConfig EXCEPT !.filters.maxResults = maxResults]
    /\ InitCandidates(lists)

Init == InitWith(ListsUpTo(Catalog, MaxItems))

InitPair == InitWith(ListsUpTo(PairCatalog, MaxPairItems))

(***************************************************************************)
(* optimizeResults, lines 34-53, one action per statement                  *)
(***************************************************************************)
Running(c) == frames[c].pc \notin {"idle", "returned", "threw"}

\* what a call allocated is garbage once the caller calls again with frame c
Release(heap, c) == [r \in {x \in DOMAIN heap : x[1] # c} |-> heap[r]]

\* a guard without the Array.isArray test; length of a non-array object is
\* undefined, which is not 0
GuardRejectsNoArrayTest(a, results) ==
    \/ results.kind \in {"undefined", "null"}
    \/ results.kind = "array" /\ Len(a[results.ref]) = 0

\* line 35: !results || !Array.isArray(results) || results.length === 0
GuardRejects(a, results) ==
    \/ results.kind \in {"undefined", "null"}
    \/ results.kind # "array"
    \/ Len(a[results.ref]) = 0

\* lines 34-37: the call and its guard; return [] is a new empty array.  The
\* caller drops what it held from frame c and the hints of the last search.
Call(c, results, query) ==
    /\ ~Running(c)
    /\ IF GuardRejects(arrs, results)
       THEN /\ arrs' = (<<c, "empty">> :> <<>>) @@ Release(arrs, c)
            /\ frames' = [frames EXCEPT ![c] =
                   [IdleFrame EXCEPT !.pc = "returned", !.results = results,
                                     !.query = query, !.ret = <<c, "empty">>]]
       ELSE /\ arrs' = Release(arrs, c)
            /\ frames' = [frames EXCEPT ![c] =
                   [IdleFrame EXCEPT !.pc = "score", !.results = results,
                                     !.query = query]]
    /\ objs' = Release(objs, c)
    /\ suggestions' = 0
    /\ UNCHANGED <<config, direct, result, apiManager, browser>>

\* a map callback that writes relevanceScore and matchDetails onto the item
\* it is given before copying it
ObjsAfterScoreInPlace(c, cfg, h, arr, query) ==
    LET normalizedQuery == normalizeText(query)
        queryTerms == extractKeywords(normalizedQuery)
        scored(r) == ScoredItem(cfg, h[r], normalizedQuery, queryTerms)
    IN  [r \in {<<c, i>> : i \in 1..Len(arr)} |-> scored(arr[r[2]])]
            @@ [r \in DOMAIN h |->
                   IF \E i \in 1..Len(arr) : arr[i] = r THEN scored(r) ELSE h[r]]

\* calculateRelevanceScores, lines 58-70: the objects results.map creates,
\* added to the heap h
ObjsAfterScore(c, cfg, h, arr, query) ==
    LET normalizedQuery == normalizeText(query)
        queryTerms == extractKeywords(normalizedQuery)
    IN  [r \in {<<c, i>> : i \in 1..Len(arr)} |->
            ScoredItem(cfg, h[arr[r[2]]], normalizedQuery, queryTerms)] @@ h

\* the array results.map returns
ArrAfterScore(c, arr) == [i \in 1..Len(arr) |-> <<c, i>>]

\* line 40; map on a value that is no array throws a TypeError
Score(c) ==
    /\ frames[c].pc = "score"
    /\ IF frames[c].results.kind # "array"
       THEN /\ frames' = [frames EXCEPT ![c].pc = "threw"]
            /\ UNCHANGED <<objs, arrs>>
       ELSE /\ objs' = ObjsAfterScore(c, config, objs,
                                      arrs[frames[c].results.ref],
                                      frames[c].query)
            /\ arrs' = (<<c, "scoredResults">> :>
                           ArrAfterScore(c, arrs[frames[c].results.ref])) @@ arrs
            /\ frames' = [frames EXCEPT ![c].pc = "filter",
                              ![c].scoredResults = <<c, "scoredResults">>]
    /\ UNCHANGED <<config, suggestions, direct, result, apiManager, browser>>

\* line 43
Filter(c) ==
    /\ frames[c].pc = "filter"
    /\ arrs' = (<<c, "filteredResults">> :>
                   filterLowScoreResults(config, objs,
                                         arrs[frames[c].scoredResults])) @@ arrs
    /\ frames' = [frames EXCEPT ![c].pc = "dedup",
                      ![c].filteredResults = <<c, "filteredResults">>]
    /\ UNCHANGED <<config, objs, suggestions, direct, result, apiManager, browser>>

\* line 46: removeDuplicates returns its own array, filtered
Dedup(c) ==
    /\ frames[c].pc = "dedup"
    /\ arrs' = (<<c, "filtered">> :>
                   removeDuplicates(objs, arrs[frames[c].filteredResults])) @@ arrs
    /\ frames' = [frames EXCEPT ![c].pc = "sort",
                      ![c].deduplicatedResults = <<c, "filtered">>]
    /\ UNCHANGED <<config, objs, suggestions, direct, result, apiManager, browser>>

\* the array sortByRelevance sorts in place and returns: its argument
SortTarget(f) == f.deduplicatedResults

\* line 49
Sort(c) ==
    /\ frames[c].pc = "sort"
    /\ arrs' = [arrs EXCEPT ![SortTarget(frames[c])] =
                   sortByRelevance(objs, arrs[SortTarget(frames[c])])]
    /\ frames' = [frames EXCEPT ![c].pc = "slice",
                      ![c].sortedResults = SortTarget(frames[c])]
    /\ UNCHANGED <<config, objs, suggestions, direct, result, apiManager, browser>>

\* line 52: slice returns a new array
Slice(c) ==
    /\ frames[c].pc = "slice"
    /\ arrs' = (<<c, "slice">> :>
                   slice(arrs[frames[c].sortedResults],
                         SliceEnd(config, arrs[frames[c].sortedResults])))
                   @@ arrs
    /\ frames' = [frames EXCEPT ![c].pc = "returned", ![c].ret = <<c, "slice">>]
    /\ UNCHANGED <<config, objs, suggestions, direct, result, apiManager, browser>>

\* getSearchSuggestions(query, results) on the caller's array or on a list
\* that optimizeResults returned
Suggest(ref) ==
    /\ ref \in DOMAIN arrs
    /\ suggestions' = getSearchSuggestions(Len(arrs[ref]))
    /\ UNCHANGED <<config, objs, arrs, frames, direct, result, apiManager, browser>>

SuggestArgs == {CallerArray} \cup {frames[c].ret : c \in Calls}

\* optimizeResults as a function of its arguments and the configuration: the
\* statements of lines 34-53 run on a heap that holds the candidates alone
optimizeResultsAlone(cfg, items, results, query) ==
    IF results.kind # "array" \/ items = <<>> THEN <<>>
    ELSE LET input == [i \in 1..Len(items) |-> <<0, i>>]
             h == ObjsAfterScore(1, cfg,
                                 [r \in {<<0, i>> : i \in 1..Len(items)} |->
                                     items[r[2]]],
                                 input, query)
             sorted == sortByRelevance(h,
                           removeDuplicates(h,
                               filterLowScoreResults(cfg, h,
                                                     ArrAfterScore(1, input))))
             out == slice(sorted, SliceEnd(cfg, sorted))
         IN  [i \in 1..Len(out) |-> h[out[i]]]

(***************************************************************************)
(* The program: JavaScript runs each call to completion, so a call starts  *)
(* only when no other is in progress.  Spec is one caller calling again    *)
(* and again; SpecHistory keeps the previous call's frame and result while *)
(* the next call runs on the other frame.                                  *)
(***************************************************************************)
NoneRunning == \A c \in Calls : ~Running(c)

Step(c) ==
    \/ Score(c)
    \/ Filter(c)
    \/ Dedup(c)
    \/ Sort(c)
    \/ Slice(c)

Next ==
    \/ \E results \in ResultsValues, query \in Queries :
          NoneRunning /\ Call(1, results, query)
    \/ Step(1)
    \/ \E ref \in SuggestArgs : NoneRunning /\ Suggest(ref)

Spec == Init /\ [][Next]_vars

NextHistory ==
    \/ \E c \in Calls, results \in ResultsValues, query \in Queries :
          NoneRunning /\ Call(c, results, query)
    \/ \E c \in Calls : Step(c)
    \/ \E ref \in SuggestArgs : NoneRunning /\ Suggest(ref)

SpecHistory == InitPair /\ [][NextHistory]_vars

(***************************************************************************)
(* The engine after the page has replaced this.config.filters by an object *)
(* that lacks a key                                                        *)
(***************************************************************************)
FiltersLackingKeys ==
    {[maxResults |-> DefaultFilters.maxResults],
     [minScore |-> DefaultFilters.minScore],
     DefaultFilters}

InitLackingKeys ==
    /\ \E filters \in FiltersLackingKeys :
          config = [DefaultConfig EXCEPT !.filters = filters]
    /\ InitCandidates(ListsUpTo(PairCatalog, MaxPairItems))

SpecLackingKeys == InitLackingKeys /\ [][Next]_vars

(***************************************************************************)
(* Candidates of which some have no year or an empty one                   *)
(***************************************************************************)
YearlessCatalog ==
    { [vod_name |-> <<"a", "b">>, source_code |-> "tyyszy"],
      [vod_name |-> <<"a", "b">>, vod_year |-> <<>>, source_code |-> "custom"],
      [vod_name |-> <<"b", "a">>, vod_year |-> <<"1", "0">>,
       source_code |-> "custom"] }

InitYearless == InitWith(ListsUpTo(YearlessCatalog, MaxPairItems))

SpecYearless == InitYearless /\ [][Next]_vars

(***************************************************************************)
(* Section 5 of the design: calls of optimizeResults on one engine running *)
(* concurrently, their statements interleaved in any order                 *)
(***************************************************************************)
NextConcurrent ==
    \/ \E c \in Calls, results \in ResultsValues, query \in Queries :
          Call(c, results, query)
    \/ \E c \in Calls : Step(c)
    \/ \E ref \in SuggestArgs : Suggest(ref)

SpecConcurrent == InitPair /\ [][NextConcurrent]_vars

(***************************************************************************)
(* The engine's other methods, called directly on window.searchOptimizer   *)
(***************************************************************************)
\* the engine as constructed, about to be asked for one of calls
InitDirect(calls) ==
    /\ config = DefaultConfig
    /\ objs = << >>
    /\ arrs = << >>
    /\ frames = [c \in Calls |-> IdleFrame]
    /\ suggestions = 0
    /\ direct \in calls
    /\ result = <<>>
    /\ apiManager = Null
    /\ browser = Null

\* the longest argument of calculateSimilarity
MaxStrLen == 3

Letters == {"a", "b"}

\* a string, undefined or null
SimilarityArgs == ListsUpTo(Letters, MaxStrLen) \cup {Absent, Null}

SimilarityCalls ==
    {[method |-> "calculateSimilarity", str1 |-> x, str2 |-> y] :
        x \in SimilarityArgs, y \in SimilarityArgs}

\* calculateSimilarity(str1, str2), lines 184-194
CalculateSimilarity ==
    /\ direct.method = "calculateSimilarity"
    /\ result = <<>>
    /\ result' = <<calculateSimilarity(direct.str1, direct.str2)>>
    /\ UNCHANGED <<config, objs, arrs, frames, suggestions, direct, apiManager,
                 browser>>

SpecSimilarity == InitDirect(SimilarityCalls) /\ [][CalculateSimilarity]_vars

\* the longest argument of normalizeText
MaxTextLen == 4

\* a letter in both cases, a separator, a bracket, and the characters of the
\* season and part markers
TextChars == {"a", "A", " ", "(", "DI", "JI", "BU"}

NormalizeCalls ==
    {[method |-> "normalizeText", text |-> x] :
        x \in ListsUpTo(TextChars, MaxTextLen) \cup {Absent, Null}}

\* normalizeText(text), lines 150-157, and then normalizeText of what it
\* returned
NormalizeText ==
    /\ direct.method = "normalizeText"
    /\ Len(result) < 2
    /\ result' = Append(result,
                        normalizeText(IF result = <<>> THEN direct.text
                                      ELSE result[Len(result)]))
    /\ UNCHANGED <<config, objs, arrs, frames, suggestions, direct, apiManager,
                 browser>>

SpecNormalize == InitDirect(NormalizeCalls) /\ [][NormalizeText]_vars

\* the longest normalized field text and the longest normalized query given
\* to calculateTextScore
MaxFieldLen == 4

MaxQueryLen == 2

\* the largest and the smallest of the multipliers of lines 86-96
Multipliers == {<<30, 10>>, <<5, 10>>}

\* the arguments as calculateItemScore passes them: normalized texts, the
\* normalized query and the terms extractKeywords gave for it (line 60); two
\* fields are scored for one query
TextScoreCalls ==
    {[method |-> "calculateTextScore", texts |-> <<x, y>>, query |-> q,
      queryTerms |-> extractKeywords(q), multiplier |-> m] :
        x \in ListsUpTo(Letters, MaxFieldLen),
        y \in ListsUpTo(Letters, MaxFieldLen),
        q \in ListsUpTo(Letters, MaxQueryLen), m \in Multipliers}

\* calculateTextScore(text, query, queryTerms, multiplier), lines 113-145, on
\* the next of the texts
CalculateTextScore ==
    /\ direct.method = "calculateTextScore"
    /\ Len(result) < Len(direct.texts)
    /\ result' = Append(result,
                        calculateTextScore(config,
                                           direct.texts[Len(result) + 1],
                                           direct.query, direct.queryTerms,
                                           direct.multiplier))
    /\ UNCHANGED <<config, objs, arrs, frames, suggestions, direct, apiManager,
                 browser>>

SpecTextScore == InitDirect(TextScoreCalls) /\ [][CalculateTextScore]_vars

\* a property with one of values, or no such property
Optional(name, values) == {<< >>} \cup {(name :> v) : v \in values}

\* items with their fields present, empty or missing; "other" is a source the
\* quality table does not list, "constructor" a name every object inherits
ScoredCatalog ==
    {n @@ y @@ a @@ sc :
        n \in Optional("vod_name", {<<>>, <<"a", "b">>, <<"A", " ", "b">>}),
        y \in Optional("vod_year", {<<>>, <<"1", "0">>}),
        a \in Optional("vod_actor", {<<"b">>}),
        sc \in Optional("source_code",
                        {"tyyszy", "custom", "other", "constructor"})}

\* "1 0" and "(1)0" hold the year 10 only once normalized, "DI10JI" only
\* before; "YI GE" is a stop word once normalized
ScoredQueries ==
    {<<"a", "b">>, <<>>, <<"1", "0">>, <<"1", " ", "0">>,
     <<"(", "1", ")", "0">>, <<"b", " ", "1", "0">>,
     <<"DI", "1", "0", "JI">>, <<"YI", " ", "GE">>, Absent}

RelevanceScoresCalls ==
    {[method |-> "calculateRelevanceScores", results |-> <<item>>,
      query |-> q] : item \in ScoredCatalog, q \in ScoredQueries}

\* the identifiers of the table, two it does not list, names inherited from
\* Object.prototype, and an item without source_code
SourceCodes ==
    DOMAIN qualityMap \cup {"other", "TYYSZY"} \cup InheritedNames

QualityBonusCalls ==
    {[method |-> "getSourceQualityBonus", item |-> i] :
        i \in Optional("source_code", SourceCodes)}

\* calculateRelevanceScores(results, query), lines 58-70
CalculateRelevanceScores ==
    /\ direct.method = "calculateRelevanceScores"
    /\ result = <<>>
    /\ result' = <<calculateRelevanceScores(config, direct.results,
                                            direct.query)>>
    /\ UNCHANGED <<config, objs, arrs, frames, suggestions, direct, apiManager,
                 browser>>

\* getSourceQualityBonus(item.source_code), lines 230-239
GetSourceQualityBonus ==
    /\ direct.method = "getSourceQualityBonus"
    /\ result = <<>>
    /\ result' = <<getSourceQualityBonus(direct.item)>>
    /\ UNCHANGED <<config, objs, arrs, frames, suggestions, direct, apiManager,
                 browser>>

NextScorer ==
    \/ CalculateRelevanceScores
    \/ GetSourceQualityBonus

SpecScorer ==
    InitDirect(RelevanceScoresCalls \cup QualityBonusCalls)
        /\ [][NextScorer]_vars

\* titles with a season or part marker after a name: the names a, b, A and
\* the names that themselves begin with the marker's first character
MarkedTitles ==
    { <<"a", "DI", "1", "JI">>, <<"b", "DI", "1", "JI">>,
      <<"A", " ", "DI", "1", "JI">>, <<"a", "DI", "2", "BU">>,
      <<"DI", "a", "DI", "1", "JI">>, <<"DI", "b", "DI", "1", "JI">>,
      <<"a">> }

\* scored items as filterLowScoreResults hands them to removeDuplicates
MarkedItems ==
    {[vod_name |-> t, relevanceScore |-> sc] @@ y :
        t \in MarkedTitles, sc \in {10, 20},
        y \in Optional("vod_year", {<<"1", "0">>})}

RemoveDuplicatesCalls ==
    {[method |-> "removeDuplicates", results |-> <<x, y>>] :
        x \in MarkedItems, y \in MarkedItems}

\* removeDuplicates(results), lines 253-278: the positions of results that
\* the returned array holds, in its order
RemoveDuplicates ==
    /\ direct.method = "removeDuplicates"
    /\ result = <<>>
    /\ LET refs == [i \in 1..Len(direct.results) |-> <<0, i>>]
           h == [r \in {<<0, i>> : i \in 1..Len(direct.results)} |->
                    direct.results[r[2]]]
           kept == removeDuplicates(h, refs)
       IN  result' = <<[i \in 1..Len(kept) |-> kept[i][2]]>>
    /\ UNCHANGED <<config, objs, arrs, frames, suggestions, direct, apiManager,
                 browser>>

SpecDedup == InitDirect(RemoveDuplicatesCalls) /\ [][RemoveDuplicates]_vars

(***************************************************************************)
(* APIManager, src/js/api-manager.js                                       *)
(***************************************************************************)
\* time is counted in ticks; this.updateInterval (7 days) is two of them
updateInterval == 2

\* this.maxConcurrentTests
maxConcurrentTests == 5

MaxNow == 6     \* the last tick Date.now() reaches
MaxRuns == 2    \* calls of updateAPISources under way at a time
MaxApis == 6    \* APIs one discoverAPIs returns

RunIds == 1..MaxRuns

\* a call of updateAPISources: who called it, where it waits, the APIs of
\* the batches not yet started and the testSingleAPI calls not yet settled
IdleRun == [by |-> "none", pc |-> "idle", left |-> 0, inflight |-> 0]

\* the page is loaded one tick after the first interval
LoadTime == updateInterval + 1

\* localStorage's apiLastUpdate: {} when there is no such item (getItem
\* returns null, the first visit), {t} when it holds the digits of t, which
\* the subtractions of shouldUpdate and scheduleNextUpdate read back as t
StoredTimes == {{}} \cup {{t} : t \in 1..LoadTime}

\* the state after `window.apiManager = new APIManager()`, line 396: the
\* constructor's assignments, and init() waiting at `await
\* this.loadSavedAPIs()`
InitManager ==
    /\ config = DefaultConfig
    /\ objs = << >>
    /\ arrs = << >>
    /\ frames = [c \in Calls |-> IdleFrame]
    /\ suggestions = 0
    /\ direct = NoDirect
    /\ result = <<>>
    /\ \E stored \in StoredTimes :
          /\ browser = [now |-> LoadTime, apiLastUpdate |-> stored,
                        timers |-> {}]
          /\ apiManager = [lastUpdateTime |-> IF stored = {} THEN 0
                                              ELSE CHOOSE t \in stored :
                                                       TRUE,
                           init |-> "loading",
                           runs |-> [r \in RunIds |-> IdleRun]]

\* shouldUpdate(), lines 37-40
shouldUpdate(mgr, br) == (br.now - mgr.lastUpdateTime) > updateInterval

\* scheduleNextUpdate(), lines 342-354: the pending timers after the call
scheduleNextUpdate(mgr, br) ==
    LET nextUpdate == updateInterval - (br.now - mgr.lastUpdateTime)
    IN  IF nextUpdate > 0 THEN br.timers \cup {br.now + nextUpdate}
        ELSE br.timers

Min(a, b) == IF a <= b THEN a ELSE b

FreeRuns == {r \in RunIds : apiManager.runs[r].pc = "idle"}

\* updateAPISources() up to its first wait, the fetch of discoverAPIs
StartedRun(caller) ==
    [by |-> caller, pc |-> "discover", left |-> 0, inflight |-> 0]

\* testAPIQuality's loop body, lines 158-159: the next chunk of at most
\* maxConcurrentTests APIs is mapped to testSingleAPI calls
NextBatch(run, apis) ==
    [run EXCEPT !.pc = "test",
                !.inflight = Min(apis, maxConcurrentTests),
                !.left = apis - Min(apis, maxConcurrentTests)]

\* the rest of updateAPISources once the last batch has settled, lines
\* 86-92, and what its caller does then: saveAPIs stores Date.now() in
\* localStorage and leaves this.lastUpdateTime alone; init goes on to
\* scheduleNextUpdate, forceUpdate returns, the timer's callback has not
\* waited
Completed(r) ==
    /\ browser' = [browser EXCEPT
                      !.apiLastUpdate = {browser.now},
                      !.timers = IF apiManager.runs[r].by = "init"
                                 THEN scheduleNextUpdate(apiManager, browser)
                                 ELSE @]
    /\ apiManager' = [apiManager EXCEPT
                         !.runs[r] = IdleRun,
                         !.init = IF apiManager.runs[r].by = "init"
                                  THEN "done" ELSE @]

\* init() after loadSavedAPIs, lines 28-34
InitResume ==
    /\ apiManager.init = "loading"
    /\ IF shouldUpdate(apiManager, browser)
       THEN /\ apiManager' = [apiManager EXCEPT
                                 !.init = "updating",
                                 !.runs[1] = StartedRun("init")]
            /\ UNCHANGED browser
       ELSE /\ apiManager' = [apiManager EXCEPT !.init = "done"]
            /\ browser' = [browser EXCEPT
                              !.timers = scheduleNextUpdate(apiManager,
                                                            browser)]
    /\ UNCHANGED <<config, objs, arrs, frames, suggestions, direct, result>>

\* window.forceUpdateAPIs(), lines 357-360 and 399, called by the page at
\* any time after the script has run
ForceUpdate ==
    /\ apiManager.init # "loading"
    /\ FreeRuns # {}
    /\ LET r == CHOOSE x \in FreeRuns : \A y \in FreeRuns : x <= y
       IN  apiManager' = [apiManager EXCEPT !.runs[r] = StartedRun("force")]
    /\ UNCHANGED <<config, objs, arrs, frames, suggestions, direct, result,
                   browser>>

\* the callback of setTimeout, lines 347-350, at or after its deadline:
\* updateAPISources is called and not waited for, then scheduleNextUpdate
TimerFires ==
    /\ FreeRuns # {}
    /\ \E d \in browser.timers :
          /\ d <= browser.now
          /\ LET r == CHOOSE x \in FreeRuns : \A y \in FreeRuns : x <= y
                 fired == [browser EXCEPT !.timers = @ \ {d}]
             IN  /\ apiManager' = [apiManager EXCEPT
                                      !.runs[r] = StartedRun("timer")]
                 /\ browser' = [fired EXCEPT
                                   !.timers = scheduleNextUpdate(apiManager,
                                                                 fired)]
    /\ UNCHANGED <<config, objs, arrs, frames, suggestions, direct, result>>

\* discoverAPIs returns, lines 81-84: testAPIQuality chunks the APIs and
\* starts the first batch; without APIs the update runs to its end
Discovered ==
    /\ \E r \in RunIds, apis \in 0..MaxApis :
          /\ apiManager.runs[r].pc = "discover"
          /\ IF apis > 0
             THEN /\ apiManager' = [apiManager EXCEPT
                                       !.runs[r] = NextBatch(@, apis)]
                  /\ UNCHANGED browser
             ELSE Completed(r)
    /\ UNCHANGED <<config, objs, arrs, frames, suggestions, direct, result>>

\* a testSingleAPI call settles, lines 163-188; with it the last of its
\* batch, Promise.allSettled resolves and the loop of testAPIQuality goes
\* on to the next batch or ends
TestSettles ==
    /\ \E r \in RunIds :
          LET run == apiManager.runs[r]
          IN  /\ run.pc = "test"
              /\ IF run.inflight > 1
                 THEN /\ apiManager' = [apiManager EXCEPT
                                           !.runs[r].inflight = @ - 1]
                      /\ UNCHANGED browser
                 ELSE IF run.left > 0
                 THEN /\ apiManager' = [apiManager EXCEPT
                                           !.runs[r] = NextBatch(@, run.left)]
                      /\ UNCHANGED browser
                 ELSE Completed(r)
    /\ UNCHANGED <<config, objs, arrs, frames, suggestions, direct, result>>

\* Date.now() advances
Tick ==
    /\ browser.now < MaxNow
    /\ browser' = [browser EXCEPT !.now = @ + 1]
    /\ UNCHANGED <<config, objs, arrs, frames, suggestions, direct, result,
                   apiManager>>

NextManager ==
    \/ InitResume
    \/ ForceUpdate
    \/ TimerFires
    \/ Discovered
    \/ TestSettles
    \/ Tick

SpecManager == InitManager /\ [][NextManager]_vars

(***************************************************************************)
(* Properties                                                              *)
(***************************************************************************)
Returned(c) == frames[c].pc = "returned"

\* a call that went through the pipeline and returned
Ranked(c) == Returned(c) /\ frames[c].sortedResults # NoRef

\* the objects an array holds, in order
Deref(ref) == [i \in 1..Len(arrs[ref]) |-> objs[arrs[ref][i]]]

RetValue(c) == Deref(frames[c].ret)

\* the caller's candidate list as the call was given it
Candidates == Deref(CallerArray)

\* the deduplication key as the design states it: the pair of the normalized
\* title and the year, '' for none
KeyPair(item) ==
    <<normalizeText(PropOrEmpty(item, "vod_name")), PropOrEmpty(item, "vod_year")>>

\* C1: every item of the list optimizeResults returns has a relevanceScore
\* that is a number and at least config.filters.minScore.
C1_ReturnedScoresAtLeastMin ==
    \A c \in Calls : Returned(c) =>
        \A i \in 1..Len(RetValue(c)) :
            /\ RetValue(c)[i].relevanceScore # NaN
            /\ RetValue(c)[i].relevanceScore >= config.filters.minScore

\* a call returned items after the filter dropped some scored candidate
C1_Witness ==
    \E c \in Calls :
        /\ Ranked(c)
        /\ Len(RetValue(c)) > 0
        /\ Len(arrs[frames[c].filteredResults]) < Len(arrs[frames[c].scoredResults])
        /\ \E i \in 1..Len(arrs[frames[c].scoredResults]) :
              Deref(frames[c].scoredResults)[i].relevanceScore = NaN

\* C2: the returned list has at most maxResults items and is exactly the
\* first maxResults items of the sorted, deduplicated, filtered list: no
\* dropped item ranks before a returned one.
C2_ReturnedIsSortedPrefix ==
    \A c \in Calls : Ranked(c) =>
        LET ret == arrs[frames[c].ret]
            sorted == arrs[frames[c].sortedResults]
        IN  /\ Len(ret) <= config.filters.maxResults
            /\ Len(ret) = Min2(Len(sorted), config.filters.maxResults)
            /\ \A i \in 1..Len(ret) : ret[i] = sorted[i]
            /\ \A i \in 1..Len(ret), j \in (Len(ret) + 1)..Len(sorted) :
                  Comparator(objs[sorted[i]], objs[sorted[j]]) <= 0

\* a call whose sorted list was longer than maxResults
C2_Witness ==
    \E c \in Calls :
        /\ Ranked(c)
        /\ Len(arrs[frames[c].sortedResults]) > config.filters.maxResults
        /\ Len(arrs[frames[c].ret]) = config.filters.maxResults

\* C3: no two items of the returned list have the same deduplication key
\* (normalized title, year or '').
C3_ReturnedKeysDistinct ==
    \A c \in Calls : Returned(c) =>
        \A i, j \in 1..Len(RetValue(c)) :
            i # j => KeyPair(RetValue(c)[i]) # KeyPair(RetValue(c)[j])

\* a call returned two items or more after removeDuplicates dropped one whose
\* raw title differs from the kept one's
C3_Witness ==
    \E c \in Calls :
        /\ Ranked(c)
        /\ Len(RetValue(c)) >= 2
        /\ \E i, j \in 1..Len(arrs[frames[c].filteredResults]) :
              LET in == Deref(frames[c].filteredResults)
              IN  /\ i # j
                  /\ KeyPair(in[i]) = KeyPair(in[j])
                  /\ in[i].vod_name # in[j].vod_name

\* the first position of arr whose object has the key k
FirstWithKey(seq, k) ==
    CHOOSE i \in 1..Len(seq) :
        /\ KeyPair(seq[i]) = k
        /\ \A j \in 1..(i - 1) : KeyPair(seq[j]) # k

\* C4: removeDuplicates collapses each group of items sharing a key to one
\* survivor of the group whose score is the group's maximum, and the survivors
\* stand in the order of the first occurrence of their keys in the input.
C4_DedupKeepsMaxAtFirstOccurrence ==
    \A c \in Calls : frames[c].pc = "sort" =>
        LET in == Deref(frames[c].filteredResults)
            inRefs == arrs[frames[c].filteredResults]
            out == Deref(frames[c].deduplicatedResults)
            outRefs == arrs[frames[c].deduplicatedResults]
        IN  /\ {KeyPair(out[i]) : i \in 1..Len(out)}
                  = {KeyPair(in[i]) : i \in 1..Len(in)}
            /\ \A i, j \in 1..Len(out) :
                  i # j => KeyPair(out[i]) # KeyPair(out[j])
            /\ \A i \in 1..Len(out) :
                  /\ \E j \in 1..Len(in) : inRefs[j] = outRefs[i]
                  /\ \A j \in 1..Len(in) :
                        KeyPair(in[j]) = KeyPair(out[i])
                            => out[i].relevanceScore >= in[j].relevanceScore
            /\ \A i, j \in 1..Len(out) :
                  i < j => FirstWithKey(in, KeyPair(out[i]))
                               < FirstWithKey(in, KeyPair(out[j]))

\* removeDuplicates has put a later, higher-scoring item in the slot of the
\* first occurrence of its key, ahead of the item of another key that stood
\* between the two in the input
C4_Witness ==
    \E c \in Calls :
        /\ frames[c].pc = "sort"
        /\ LET in == Deref(frames[c].filteredResults)
               inRefs == arrs[frames[c].filteredResults]
               outRefs == arrs[frames[c].deduplicatedResults]
           IN  /\ Len(in) = 3 /\ Len(outRefs) = 2
               /\ KeyPair(in[1]) = KeyPair(in[3])
               /\ in[3].relevanceScore > in[1].relevanceScore
               /\ outRefs = <<inRefs[3], inRefs[2]>>

\* the numeric year sortByRelevance compares: parseInt(vod_year) || 0
NumericYear(item) == ParseIntOrZero(Prop(item, "vod_year"))

\* C5: in the returned list adjacent items a before b have a.relevanceScore >=
\* b.relevanceScore; with equal scores the numeric year of a is >= that of b;
\* with equal scores and years the raw title of a does not sort after b's.
C5_ReturnedOrdered ==
    \A c \in Calls : Ranked(c) =>
        \A i \in 1..(Len(RetValue(c)) - 1) :
            LET a == RetValue(c)[i]
                b == RetValue(c)[i + 1]
            IN  /\ a.relevanceScore >= b.relevanceScore
                /\ a.relevanceScore = b.relevanceScore
                      => NumericYear(a) >= NumericYear(b)
                /\ (a.relevanceScore = b.relevanceScore
                       /\ NumericYear(a) = NumericYear(b))
                      => localeCompare(PropOrEmpty(a, "vod_name"),
                                       PropOrEmpty(b, "vod_name")) <= 0

\* a returned list of three items with equal scores, which the sort put in
\* the reverse of their input order: the first pair ordered by year (10
\* before 9), the second by title
C5_Witness ==
    \E c \in Calls :
        /\ Ranked(c)
        /\ Len(RetValue(c)) = 3
        /\ LET r == RetValue(c)
               refs == arrs[frames[c].ret]
               inRefs == arrs[frames[c].filteredResults]
           IN  /\ r[1].relevanceScore = r[3].relevanceScore
               /\ NumericYear(r[1]) > NumericYear(r[2])
               /\ NumericYear(r[2]) = NumericYear(r[3])
               /\ r[2].vod_name # r[3].vod_name
               /\ inRefs = <<refs[3], refs[2], refs[1]>>

\* the results argument is absent, no array, or an empty array
Rejectable(c) ==
    \/ frames[c].results.kind # "array"
    \/ Len(arrs[CallerArray]) = 0

\* C6: optimizeResults returns the empty list, with no error raised, whenever
\* results is null or undefined, is not an array, or is an empty array, for
\* any query.
C6_RejectsWithEmptyList ==
    \A c \in Calls : (frames[c].pc # "idle" /\ Rejectable(c)) =>
        /\ frames[c].pc = "returned"
        /\ arrs[frames[c].ret] = <<>>

\* a call given a non-array object and a query returned the empty list
C6_Witness ==
    \E c \in Calls :
        /\ Returned(c)
        /\ frames[c].results.kind = "object"
        /\ frames[c].query # Absent
        /\ arrs[frames[c].ret] = <<>>

AbsentQuery(c) == frames[c].query \in {Absent, Null}

C8_InputNeverMutated ==
    [][/\ arrs'[CallerArray] = arrs[CallerArray]
       /\ \A r \in DOMAIN objs : r[1] = 0 => objs'[r] = objs[r]]_vars

\* a call returned a list led by the copy of the third candidate, one
\* candidate dropped, while the third candidate itself has no relevanceScore
C8_Witness ==
    \E c \in Calls :
        /\ Ranked(c)
        /\ Len(arrs[CallerArray]) = 3
        /\ Len(arrs[frames[c].ret]) = 2
        /\ arrs[frames[c].ret][1] = <<c, 3>>
        /\ "relevanceScore" \in DOMAIN objs[<<c, 3>>]
        /\ "relevanceScore" \notin DOMAIN objs[<<0, 3>>]

\* C9: two calls of optimizeResults with equal candidates and equal query on
\* the same engine return equal lists, item by item with equal relevanceScore
\* and matchDetails, whatever calls were made on the engine before.
C9_EqualCallsEqualResults ==
    \A c, d \in Calls :
        (/\ Returned(c) /\ Returned(d)
         /\ frames[c].results = frames[d].results
         /\ frames[c].query = frames[d].query)
            => RetValue(c) = RetValue(d)

\* two calls with equal arguments each returned two items, the later one
\* after the earlier one had returned and left its objects on the heap
C9_Witness ==
    \E c, d \in Calls :
        /\ c # d
        /\ Ranked(c) /\ Ranked(d)
        /\ frames[c].results = frames[d].results
        /\ frames[c].query = frames[d].query
        /\ Len(RetValue(c)) = 2
        /\ Len(RetValue(d)) = 2

\* C10: with the statements of several calls interleaved in any order, each
\* call returns what it returns when run alone, and no step writes to the
\* configuration or to the input the calls share.
C10_InterleavedCallsIndependent ==
    /\ [](\A c \in Calls : Returned(c) =>
             RetValue(c) = optimizeResultsAlone(config, Candidates,
                                                frames[c].results,
                                                frames[c].query))
    /\ [][/\ config' = config
          /\ arrs'[CallerArray] = arrs[CallerArray]
          /\ \A r \in DOMAIN objs : r[1] = 0 => objs'[r] = objs[r]]_vars

\* two calls with different queries are both past scoring and not yet
\* returned, each holding a list of two items
C10_Witness ==
    /\ frames[1].pc = "sort"
    /\ frames[2].pc = "slice"
    /\ frames[1].query # frames[2].query
    /\ Len(arrs[frames[1].deduplicatedResults]) = 2
    /\ Len(arrs[frames[2].sortedResults]) = 2

(***************************************************************************)
(* Properties of calculateSimilarity                                       *)
(***************************************************************************)
SimilarityReturned ==
    direct.method = "calculateSimilarity" /\ Len(result) = 1

BothStrings ==
    direct.str1 \notin {Absent, Null} /\ direct.str2 \notin {Absent, Null}

\* C11: calculateSimilarity(s, s) is 1.0 for every string s, the empty string
\* included.
C11_SelfSimilarityIsOne ==
    (SimilarityReturned /\ BothStrings /\ direct.str1 = direct.str2)
        => result[1] = <<1, 1>>

\* the strings one insertion, deletion or substitution away from s, none
\* longer than n
OneEdit(s, n) ==
    {SubSeq(s, 1, i - 1) \o SubSeq(s, i + 1, Len(s)) : i \in 1..Len(s)}
    \cup {[s EXCEPT ![i] = c] : i \in 1..Len(s), c \in Letters}
    \cup (IF Len(s) >= n THEN {}
          ELSE {SubSeq(s, 1, i) \o <<c>> \o SubSeq(s, i + 1, Len(s)) :
                   i \in 0..Len(s), c \in Letters})

\* the strings at most k edits away from s
RECURSIVE WithinEdits(_, _, _)
WithinEdits(s, k, n) ==
    IF k = 0 THEN {s}
    ELSE LET near == WithinEdits(s, k - 1, n)
         IN  near \cup UNION {OneEdit(t, n) : t \in near}

MaxLength(a, b) == IF Len(a) > Len(b) THEN Len(a) ELSE Len(b)

\* the least number of single-character insertions, deletions and
\* substitutions that turn a into b
EditDistance(a, b) ==
    CHOOSE k \in 0..MaxLength(a, b) :
        /\ b \in WithinEdits(a, k, MaxLength(a, b))
        /\ \A m \in 0..(k - 1) : b \notin WithinEdits(a, m, MaxLength(a, b))

\* C12: for strings a and b not both empty, calculateSimilarity(a, b) is
\* (max(len a, len b) - d) / max(len a, len b) with d the least number of
\* single-character edits turning a into b; for all strings the value lies in
\* [0, 1] and equals calculateSimilarity(b, a).
C12_SimilarityFromEditDistance ==
    (SimilarityReturned /\ BothStrings) =>
        LET a == direct.str1
            b == direct.str2
            sim == result[1]
        IN  /\ sim[2] > 0 /\ 0 <= sim[1] /\ sim[1] <= sim[2]
            /\ sim = calculateSimilarity(b, a)
            /\ MaxLength(a, b) > 0 =>
                  sim[1] * MaxLength(a, b)
                      = (MaxLength(a, b) - EditDistance(a, b)) * sim[2]

\* the similarity of "aab" and "ba" was computed: two edits, one of them a
\* substitution, so 1/3
C12_Witness ==
    /\ SimilarityReturned
    /\ direct.str1 = <<"a", "a", "b">>
    /\ direct.str2 = <<"b", "a">>
    /\ result[1] = <<1, 3>>

(***************************************************************************)
(* Properties of normalizeText                                             *)
(***************************************************************************)
\* C13: normalizeText is idempotent: normalizeText(normalizeText(x)) equals
\* normalizeText(x) for every text x, with nested or repeated markers,
\* brackets and runs of separators.
C13_NormalizeIdempotent ==
    (direct.method = "normalizeText" /\ Len(result) = 2)
        => result[2] = result[1]

\* normalizeText was applied twice to a text with a marker nested in a
\* marker, of which the first application left the last character
C13_Witness ==
    /\ direct.method = "normalizeText"
    /\ direct.text = <<"DI", "DI", "JI", "JI">>
    /\ result = << <<"JI">>, <<"JI">> >>

(***************************************************************************)
(* Properties of calculateTextScore                                        *)
(***************************************************************************)
\* both texts of a call for a query that is not empty have been scored
TwoTextsScored ==
    /\ direct.method = "calculateTextScore"
    /\ Len(result) = 2
    /\ direct.query # <<>>

IsExact(text) == text = direct.query

IsPrefixed(text) == startsWith(text, direct.query) /\ text # direct.query

IsInner(text) == includes(text, direct.query) /\ ~startsWith(text, direct.query)

\* similarity > 0.6, the test of line 140
PastThreshold(text) ==
    FGreater(calculateSimilarity(text, direct.query), <<6, 10>>)

\* C14 as stated: for one query, term set and multiplier, a text equal to the
\* query scores strictly more than any text that starts with it, which scores
\* strictly more than any text that contains it without starting with it.
C14_ExactAboveStartsAboveContains ==
    TwoTextsScored =>
        /\ (IsExact(direct.texts[1]) /\ IsPrefixed(direct.texts[2]))
               => FGreater(result[1], result[2])
        /\ (IsPrefixed(direct.texts[1]) /\ IsInner(direct.texts[2]))
               => FGreater(result[1], result[2])

\* C14 as amended: a text equal to the query scores strictly more than any
\* other text that contains it; a text that starts with the query scores
\* strictly more than one that contains it elsewhere, except when the
\* similarity of the latter is past 0.6 and that of the former is not, and
\* then it scores strictly less.
C14_ExactAboveAll_StartsAboveContainsUnlessSimilar ==
    TwoTextsScored =>
        /\ (IsExact(direct.texts[1])
                /\ (IsPrefixed(direct.texts[2]) \/ IsInner(direct.texts[2])))
               => FGreater(result[1], result[2])
        /\ (IsPrefixed(direct.texts[1]) /\ IsInner(direct.texts[2]))
               => IF PastThreshold(direct.texts[2])
                        /\ ~PastThreshold(direct.texts[1])
                  THEN FGreater(result[2], result[1])
                  ELSE FGreater(result[1], result[2])

\* for the query "ab" the text "abab", which starts with it, got 80 + 40 and
\* the text "aab", which only contains it, 60 + 40 + 40 * 2/3, times 3.0
C14_Witness ==
    /\ TwoTextsScored
    /\ direct.query = <<"a", "b">>
    /\ direct.texts = << <<"a", "b", "a", "b">>, <<"a", "a", "b">> >>
    /\ result = << <<360, 1>>, <<380, 1>> >>

\* the score without the loop over queryTerms of lines 132-136
ScoreWithoutTerms(text) ==
    IF Falsy(text) THEN <<0, 1>>
    ELSE FMul(FAdd(FInt(MatchTier(config.weights, text, direct.query)),
                   SimilarityCredit(config.weights, text, direct.query)),
              direct.multiplier)

ScoresReturned ==
    direct.method = "calculateRelevanceScores" /\ Len(result) = 1

\* C16: for every item, whatever fields it has or lacks and whatever its
\* source identifier, and for every query, relevanceScore is a non-negative
\* integer, never a non-number.
C16_ScoreIsNonNegativeInteger ==
    ScoresReturned =>
        \A i \in 1..Len(result[1]) : result[1][i].relevanceScore \in Nat

ItemWithoutYear(item) == [k \in DOMAIN item \ {"vod_year"} |-> item[k]]

\* the score the item gets without its year, so without the year bonus: the
\* year enters the score nowhere else
ScoreWithoutYear(item, query) ==
    calculateItemScore(config, ItemWithoutYear(item), normalizeText(query),
                       extractKeywords(normalizeText(query)))

\* a + b where a may be NaN
NumAdd(a, b) == IF a = NaN THEN NaN ELSE a + b

\* the item has a year that is not empty and the text holds it
HoldsYear(text, item) ==
    /\ ~Falsy(PropOrEmpty(item, "vod_year"))
    /\ ~Falsy(text)
    /\ includes(text, item.vod_year)

\* C17 as stated: the yearMatch weight is added to the score once if and only
\* if the item has a non-empty year and the query as given, not normalized,
\* holds that year.
C17_YearBonusByRawQuery ==
    ScoresReturned =>
        \A i \in 1..Len(result[1]) :
            result[1][i].relevanceScore
                = NumAdd(ScoreWithoutYear(direct.results[i], direct.query),
                         IF HoldsYear(direct.query, direct.results[i])
                         THEN config.weights.yearMatch ELSE 0)

\* C17 as amended: the yearMatch weight is added to the score once if and
\* only if the item has a non-empty year and the normalized query holds that
\* year.
C17_YearBonusByNormalizedQuery ==
    ScoresReturned =>
        \A i \in 1..Len(result[1]) :
            result[1][i].relevanceScore
                = NumAdd(ScoreWithoutYear(direct.results[i], direct.query),
                         IF HoldsYear(normalizeText(direct.query),
                                      direct.results[i])
                         THEN config.weights.yearMatch ELSE 0)

\* an item of the year 10 was scored for the query "1 0", which holds the
\* year only once normalized, and for it got the source bonus and the year
\* weight
C17_Witness ==
    /\ ScoresReturned
    /\ direct.query = <<"1", " ", "0">>
    /\ direct.results[1] = [vod_year |-> <<"1", "0">>, source_code |-> "custom"]
    /\ result[1][1].relevanceScore = 5 + config.weights.yearMatch

\* the table of the claim
ListedBonus ==
    [tyyszy |-> 15, dyttzy |-> 12, bfzy |-> 10, ruyi |-> 8, custom |-> 5]

\* C18: getSourceQualityBonus is the table value for the five listed source
\* identifiers and the number 0 for every other identifier, whatever string
\* it is, and for an absent one.
C18_BonusListedOrZero ==
    (direct.method = "getSourceQualityBonus" /\ Len(result) = 1) =>
        result[1] = Num(IF Prop(direct.item, "source_code") \in DOMAIN ListedBonus
                        THEN ListedBonus[direct.item.source_code]
                        ELSE 0)

(***************************************************************************)
(* Properties of removeDuplicates on equal scores                          *)
(***************************************************************************)
\* the positions of seq whose items have the key k
KeyGroup(seq, k) == {j \in 1..Len(seq) : KeyPair(seq[j]) = k}

\* the first position of the group of k among those with the group's
\* greatest score
FirstBest(seq, k) ==
    CHOOSE j \in KeyGroup(seq, k) :
        /\ \A m \in KeyGroup(seq, k) :
              seq[j].relevanceScore >= seq[m].relevanceScore
        /\ \A m \in KeyGroup(seq, k) :
              seq[m].relevanceScore >= seq[j].relevanceScore => j <= m

\* C19: the survivor of a key group is the first item in input order among
\* those having the group's greatest score: a later item of a score equal to
\* the kept one's never replaces it.
C19_TieKeepsEarliest ==
    \A c \in Calls : frames[c].pc = "sort" =>
        LET in == Deref(frames[c].filteredResults)
            inRefs == arrs[frames[c].filteredResults]
            outRefs == arrs[frames[c].deduplicatedResults]
        IN  \A i \in 1..Len(outRefs) :
                outRefs[i] = inRefs[FirstBest(in, KeyPair(objs[outRefs[i]]))]

\* removeDuplicates was given a lower-scored item, then two different items
\* of the same key and one greater score, and kept the second of the three
C19_Witness ==
    \E c \in Calls :
        /\ frames[c].pc = "sort"
        /\ LET in == Deref(frames[c].filteredResults)
               inRefs == arrs[frames[c].filteredResults]
               outRefs == arrs[frames[c].deduplicatedResults]
           IN  /\ Len(in) = 3
               /\ KeyGroup(in, KeyPair(in[1])) = {1, 2, 3}
               /\ in[1].relevanceScore < in[2].relevanceScore
               /\ in[2].relevanceScore = in[3].relevanceScore
               /\ in[2] # in[3]
               /\ outRefs = <<inRefs[2]>>

CandidateOf(r) == objs[<<0, r[2]>>]

\* C21: every returned item carries its candidate's fields unchanged plus
\* relevanceScore and matchDetails, and each of the five matchDetails flags
\* is true or false, also for an item whose year is absent or empty.
C21_ReturnedItemsCarryBooleanFlags ==
    \A c \in Calls : Ranked(c) =>
        \A n \in 1..Len(arrs[frames[c].ret]) :
            LET r == arrs[frames[c].ret][n]
                item == objs[r]
            IN  /\ DOMAIN item
                      = DOMAIN CandidateOf(r) \cup {"relevanceScore", "matchDetails"}
                /\ \A k \in DOMAIN CandidateOf(r) : item[k] = CandidateOf(r)[k]
                /\ item.matchDetails.titleMatch \in BOOLEAN
                /\ item.matchDetails.actorMatch \in BOOLEAN
                /\ item.matchDetails.directorMatch \in BOOLEAN
                /\ item.matchDetails.typeMatch \in BOOLEAN
                /\ item.matchDetails.yearMatch \in {"true", "false"}

(***************************************************************************)
(* Properties of the deduplication key                                     *)
(***************************************************************************)
\* the position after the run of digits that starts at i
RECURSIVE AfterDigits(_, _)
AfterDigits(s, i) ==
    IF i <= Len(s) /\ s[i] \in Digits THEN AfterDigits(s, i + 1) ELSE i

\* a marker itself starts at i: the ordinal character, a number, and the
\* character for season, part or episode
MarkerAt(s, i) ==
    /\ s[i] = "DI"
    /\ AfterDigits(s, i + 1) <= Len(s)
    /\ s[AfterDigits(s, i + 1)] \in {"JI", "BU", "EP"}

RECURSIVE WithoutMarkersFrom(_, _)
WithoutMarkersFrom(s, i) ==
    IF i > Len(s) THEN <<>>
    ELSE IF MarkerAt(s, i)
         THEN WithoutMarkersFrom(s, AfterDigits(s, i + 1) + 1)
    ELSE <<s[i]>> \o WithoutMarkersFrom(s, i + 1)

\* the title lower-cased, without separators and brackets, and without the
\* markers themselves
TitleOutsideMarkers(item) ==
    WithoutMarkersFrom(
        RemoveChars(RemoveChars(toLowerCase(PropOrEmpty(item, "vod_name")),
                                Separators), Brackets), 1)

\* C22: removeDuplicates merges two items only if their years are equal and
\* their titles are equal after lower-casing and removing separators,
\* brackets and the markers themselves: two titles that differ outside a
\* marker are never merged.
C22_MergesOnlyNearDuplicates ==
    (/\ direct.method = "removeDuplicates"
     /\ Len(result) = 1
     /\ Len(result[1]) < Len(direct.results))
        => /\ PropOrEmpty(direct.results[1], "vod_year")
                 = PropOrEmpty(direct.results[2], "vod_year")
           /\ TitleOutsideMarkers(direct.results[1])
                 = TitleOutsideMarkers(direct.results[2])

(***************************************************************************)
(* Properties of the query terms                                           *)
(***************************************************************************)
\* the normalized query as the one term, unless it is shorter than two
\* characters or a stop word
WholeQueryTerm(nq) ==
    IF Len(nq) >= 2 /\ nq \notin StopWords THEN {nq} ELSE {}

ScoredFields ==
    {"vod_name", "vod_actor", "vod_director", "type_name", "vod_content"}

\* C23: within rank the term set extracted from the normalized query is
\* {normalizedQuery} when that has length >= 2 and is not a stop word, and
\* empty otherwise; the per-term credit added to a field is 0 or the full
\* fuzzyMatch weight, and the returned score is the one these terms give.
C23_QueryIsTheOnlyTerm ==
    (direct.method = "calculateRelevanceScores" /\ result # <<>>) =>
        LET nq == normalizeText(direct.query)
            item == direct.results[1]
        IN  /\ extractKeywords(nq) = WholeQueryTerm(nq)
            /\ Cardinality(extractKeywords(nq)) <= 1
            /\ \A f \in ScoredFields :
                   TermCredit(config.weights,
                              normalizeText(PropOrEmpty(item, f)), nq,
                              extractKeywords(nq))
                       \in {<<0, 1>>, <<config.weights.fuzzyMatch, 1>>}
            /\ result[1][1].relevanceScore
                   = calculateItemScore(config, item, nq, WholeQueryTerm(nq))

\* a title that holds the query once both are normalized: the exact match,
\* the full credit of the one term and the similarity of 1, times 3
C23_Witness ==
    /\ direct.method = "calculateRelevanceScores"
    /\ result # <<>>
    /\ direct.query = <<"a", "b">>
    /\ DOMAIN direct.results[1] = {"vod_name"}
    /\ direct.results[1].vod_name = <<"A", " ", "b">>
    /\ TermCredit(config.weights, normalizeText(direct.results[1].vod_name),
                  normalizeText(direct.query),
                  extractKeywords(normalizeText(direct.query)))
           = <<config.weights.fuzzyMatch, 1>>
    /\ result[1][1].relevanceScore
           = 3 * (config.weights.exactMatch + 2 * config.weights.fuzzyMatch)

(***************************************************************************)
(* Properties of the API manager                                           *)
(***************************************************************************)
ManagerIdle ==
    /\ apiManager.init = "done"
    /\ \A r \in RunIds : apiManager.runs[r].pc = "idle"

\* C24: the updates of the API sources recur: after init and after every
\* update that completes, a further update is scheduled, so whenever init
\* has finished and no update is under way a timer is pending.
C24_NextUpdateScheduled ==
    ManagerIdle => browser.timers # {}

RECURSIVE TestsInFlight(_)
TestsInFlight(rs) ==
    IF rs = {} THEN 0
    ELSE LET r == CHOOSE x \in rs : TRUE
         IN  apiManager.runs[r].inflight + TestsInFlight(rs \ {r})

\* C25: at every moment at most maxConcurrentTests calls of testSingleAPI
\* are in flight, in every interleaving of init's update, the timer's
\* update and forceUpdate.
C25_AtMostMaxConcurrentTests ==
    TestsInFlight(RunIds) <= maxConcurrentTests

=============================================================================
